---- MODULE Spec2Model ----
(***************************************************************************)
(* Model of auto-mr-gitlab (src/main.py): GitlabReleaseManager.            *)
(*                                                                         *)
(* The release run (run_release_proccess) is a state machine over the      *)
(* GitLab host: latest tag -> commit classification -> next tag -> merge   *)
(* request -> prepared poll -> conflict check -> approve -> merge ->       *)
(* merged poll -> tag.  The host is the environment: every HTTP call       *)
(* answers with a success or a non-success status, and a merge-request     *)
(* fetch answers with any snapshot.                                        *)
(*                                                                         *)
(* Strings the code computes on (tag names, commit titles) are sequences   *)
(* of one-character strings, so that the regular expression, int(), the    *)
(* f-string, lower() and the substring test are modelled by what they do.  *)
(***************************************************************************)
EXTENDS Integers, Sequences, FiniteSets, TLC

\* ------------------------------------------------------------------ bounds

\* Largest version component of the generated well-formed tags.
MaxVer == 2
\* Largest feat / fix count handed directly to generate_new_tag.
MaxCount == 5
\* Longest commit list the host answers with in a release run.
MaxCommits == 2
\* Longest title sequence fed to the counting loop alone.
MaxTitles == 4
\* Longest title sequence whose permutations are compared.
MaxPerm == 3

\* ------------------------------------------------------------ characters

Digits == <<"0", "1", "2", "3", "4", "5", "6", "7", "8", "9">>

IsDigit(c) == \E i \in 1..Len(Digits) : Digits[i] = c

\* int() of one decimal digit.
DigitVal(c) == (CHOOSE i \in 1..Len(Digits) : Digits[i] = c) - 1

\* int() of a non-empty run of decimal digits (leading zeros are dropped).
RECURSIVE StrToInt(_)
StrToInt(s) ==
    IF Len(s) = 0 THEN 0
    ELSE 10 * StrToInt(SubSeq(s, 1, Len(s) - 1)) + DigitVal(s[Len(s)])

\* str() of a natural number, as the f-string formats it.
RECURSIVE IntToStr(_)
IntToStr(n) ==
    IF n < 10 THEN <<Digits[n + 1]>>
    ELSE IntToStr(n \div 10) \o <<Digits[(n % 10) + 1]>>

\* str.lower() on the letters the titles use.
LowerChar(c) ==
    CASE c = "F" -> "f"
      [] c = "E" -> "e"
      [] c = "A" -> "a"
      [] c = "T" -> "t"
      [] c = "X" -> "x"
      [] c = "I" -> "i"
      [] OTHER -> c

Lower(s) == [i \in 1..Len(s) |-> LowerChar(s[i])]

\* Python's `needle in haystack` on strings.
Contains(haystack, needle) ==
    \E i \in 0..(Len(haystack) - Len(needle)) :
        SubSeq(haystack, i + 1, i + Len(needle)) = needle

FeatMarker == <<"f", "e", "a", "t", ":">>

\* ---------------------------------------------------- generate_new_tag

\* Length of the longest run of digits of s that starts at position i.
RECURSIVE DigitRun(_, _)
DigitRun(s, i) ==
    IF i <= Len(s) /\ IsDigit(s[i]) THEN 1 + DigitRun(s, i + 1) ELSE 0

NoMatch == [ok |-> FALSE, groups |-> <<0, 0, 0>>, end |-> 0]

\* re.match(r"v(\d+)\.(\d+)\.(\d+)", last_tag): anchored at the start of the
\* string only; each \d+ is greedy, and what follows the third group is not
\* looked at.  `end` is the position of the last character matched.
TagMatch(s) ==
    IF ~(Len(s) >= 1 /\ s[1] = "v") THEN NoMatch
    ELSE LET n1 == DigitRun(s, 2)
             p1 == 2 + n1
         IN IF ~(n1 >= 1 /\ p1 <= Len(s) /\ s[p1] = ".") THEN NoMatch
            ELSE LET n2 == DigitRun(s, p1 + 1)
                     p2 == p1 + 1 + n2
                 IN IF ~(n2 >= 1 /\ p2 <= Len(s) /\ s[p2] = ".") THEN NoMatch
                    ELSE LET n3 == DigitRun(s, p2 + 1)
                         IN IF n3 < 1 THEN NoMatch
                            ELSE [ok |-> TRUE,
                                  groups |->
                                    <<StrToInt(SubSeq(s, 2, p1 - 1)),
                                      StrToInt(SubSeq(s, p1 + 1, p2 - 1)),
                                      StrToInt(SubSeq(s, p2 + 1, p2 + n3))>>,
                                  end |-> p2 + n3]

\* f"v{major}.{minor}.{patch}"
FormatTag(major, minor, patch) ==
    <<"v">> \o IntToStr(major) \o <<".">> \o IntToStr(minor)
            \o <<".">> \o IntToStr(patch)

\* BumpVersion with the patch number added to, not assigned, after a feature.
BumpVersionAdditive(v, cc) ==
    IF cc.feat > 0
    THEN <<v[1], v[2] + cc.feat, v[3] + cc.fix>>
    ELSE IF cc.fix > 0
         THEN <<v[1], v[2], v[3] + cc.fix>>
         ELSE <<v[1], v[2], 1>>

\* The version arithmetic of generate_new_tag on the parsed numbers.
BumpVersion(v, cc) ==
    IF cc.feat > 0
    THEN <<v[1], v[2] + cc.feat, IF cc.fix > 0 THEN cc.fix ELSE v[3]>>
    ELSE IF cc.fix > 0
         THEN <<v[1], v[2], v[3] + cc.fix>>
         ELSE <<v[1], v[2], 1>>

\* generate_new_tag: the new tag string, or exit = TRUE for sys.exit(1).
GenerateNewTagResult(tag, cc) ==
    LET m == TagMatch(tag)
    IN IF ~m.ok THEN [exit |-> TRUE, tag |-> <<>>]
       ELSE LET n == BumpVersion(m.groups, cc)
            IN [exit |-> FALSE, tag |-> FormatTag(n[1], n[2], n[3])]

\* ------------------------------------------------ count_commits_by_type

\* IsFeat without lower(): the marker is looked for case-sensitively.
IsFeatCaseSensitive(title) == Contains(title, FeatMarker)

\* `"feat:" in message` for message = str(commit["title"]).lower()
IsFeat(title) == Contains(Lower(title), FeatMarker)

ZeroCounts == [fix |-> 0, feat |-> 0]

\* CountStep without the reset: a feature leaves the fix count alone.
CountStepNoReset(acc, title) ==
    IF IsFeat(title)
    THEN [fix |-> acc.fix, feat |-> acc.feat + 1]
    ELSE [fix |-> acc.fix + 1, feat |-> acc.feat]

\* One iteration of the counting loop.
CountStep(acc, title) ==
    IF IsFeat(title)
    THEN [fix |-> 1, feat |-> acc.feat + 1]
    ELSE [fix |-> acc.fix + 1, feat |-> acc.feat]

\* The whole counting loop over the titles, first to last.
RECURSIVE CountLoop(_)
CountLoop(ts) ==
    IF Len(ts) = 0 THEN ZeroCounts
    ELSE CountStep(CountLoop(SubSeq(ts, 1, Len(ts) - 1)), ts[Len(ts)])

\* ------------------------------------------------------------------ state

VARIABLES
    config,          \* source_branch / target_branch of __init__
    host_default,    \* host: the project's default branch
    host_tags,       \* host: tag names, latest first
    host_commits,    \* host: the commits it holds
    host_mrs,        \* host: merge requests opened so far
    pc,              \* position of each run in run_release_proccess
    last_tag,        \* run_release_proccess: last_tag
    commit_counts,   \* run_release_proccess: commit_counts
    new_tag,         \* run_release_proccess: new_tag
    mr_id,           \* run_release_proccess: mr_id
    mr_state,        \* run_release_proccess: mr_state (prepared poll)
    merge_request,   \* run_release_proccess: merge_request (merged poll)
    calls,           \* requests each run has sent, except successful polls
    exit_code,       \* process exit status of each run
    commits,         \* counting loop alone: the titles of commits
    idx,             \* counting loop alone: commits processed so far
    counts,          \* counting loop alone: counts
    perm_commits,    \* counting loop on a permutation of commits
    perm_counts      \* counts of the permuted loop

host_vars == <<host_default, host_tags, host_commits, host_mrs>>
run_vars == <<config, pc, last_tag, commit_counts, new_tag, mr_id, mr_state,
              merge_request, calls, exit_code>>
loop_vars == <<commits, idx, counts, perm_commits, perm_counts>>
vars == <<host_vars, run_vars, loop_vars>>

\* The processes that may run the release: a first one, and a second one
\* that an operator or a scheduler may launch as well.
RunIds == {1, 2}

\* ------------------------------------------------------------ input sets

SeqsUpTo(S, n) == UNION {[1..k -> S] : k \in 0..n}

\* "v0.0.0", the tag get_latest_tag returns for a project without tags.
DefaultTag == <<"v", "0", ".", "0", ".", "0">>

\* Tag names that do not have the form v<digits>.<digits>.<digits>:
\* "2.3.4", "v2.3", "vX.Y.Z", "v1.2.3-rc1", "v1.2.3.4", "v2.18.".
OddTags ==
    { <<"2", ".", "3", ".", "4">>,
      <<"v", "2", ".", "3">>,
      <<"v", "X", ".", "Y", ".", "Z">>,
      <<"v", "1", ".", "2", ".", "3", "-", "r", "c", "1">>,
      <<"v", "1", ".", "2", ".", "3", ".", "4">>,
      <<"v", "2", ".", "1", "8", ".">> }

\* Well-formed tag names with several digits or leading zeros:
\* "v2.18.6", "v1.9.10", "v01.2.03".
LongTags ==
    { <<"v", "2", ".", "1", "8", ".", "6">>,
      <<"v", "1", ".", "9", ".", "1", "0">>,
      <<"v", "0", "1", ".", "2", ".", "0", "3">> }

SmallTags == {FormatTag(a, b, c) : a, b, c \in 0..MaxVer}

\* Latest tags of the host in a release run: "v1.2.3", "v2.0.0" and the odd ones.
RunTags == {FormatTag(1, 2, 3), FormatTag(2, 0, 0)} \cup OddTags

\* Tag names handed to generate_new_tag alone.
TagNames == SmallTags \cup LongTags \cup RunTags

\* Commit titles: "feat: a", "FeAt:x", "x feat:", "fix: a", "feat a".
Titles ==
    { <<"f", "e", "a", "t", ":", " ", "a">>,
      <<"F", "e", "A", "t", ":", "x">>,
      <<"x", " ", "f", "e", "a", "t", ":">>,
      <<"f", "i", "x", ":", " ", "a">>,
      <<"f", "e", "a", "t", " ", "a">> }

\* Titles of the commits the host holds in a release run.
RunTitles ==
    { <<"f", "e", "a", "t", ":", " ", "a">>,
      <<"f", "i", "x", ":", " ", "a">> }

Branches == {"main", "development"}

\* A commit of the host: its title, the branch it is on, and whether it was
\* created after the latest tag.
HostCommits == [title : RunTitles, branch : Branches, newer : BOOLEAN]

\* __init__ with the default branches.
DefaultConfig == [source_branch |-> "development", target_branch |-> "main"]

\* __init__ with the defaults, and with both branches given.
Configs ==
    {DefaultConfig, [source_branch |-> "main", target_branch |-> "release"]}

MrStates == {"opened", "merged", "closed"}

\* What a merge-request fetch answers with (the fields the run reads).
Snapshots == [prepared_at : BOOLEAN, has_conflicts : BOOLEAN, state : MrStates]

NoSnapshot == [prepared_at |-> FALSE, has_conflicts |-> FALSE, state |-> "none"]

\* ------------------------------------------------------------------- host

\* GET /repository/commits: without ref_name the host lists the default
\* branch, without since it lists commits of any age.
HostListCommits(params) ==
    LET ref == IF params.ref_name = "" THEN host_default ELSE params.ref_name
        Listed(c) == c.branch = ref /\ (params.since => c.newer)
    IN SelectSeq(host_commits, Listed)

\* The params dict count_commits_by_type builds: ref_name and since.
BuiltParams(to_branch) == [ref_name |-> to_branch, since |-> TRUE]

\* What requests.get(url, headers=self.headers) sends: no query parameters.
SentParams == [ref_name |-> "", since |-> FALSE]

\* One request of a run, as logged in calls.  status is "ok" (the code saw a
\* success status), "error" (it saw another status) or "ignored" (the code
\* never looks at the response).
Call(op, status) == [op |-> op, status |-> status, name |-> <<>>, ref |-> ""]

Status(ok) == IF ok THEN "ok" ELSE "error"

\* ----------------------------------------------------- run_release_proccess

Log(r, cs) == calls' = [calls EXCEPT ![r] = calls[r] \o cs]

Goto(r, label) == pc' = [pc EXCEPT ![r] = label]

\* sys.exit(1)
Exit1(r) ==
    /\ Goto(r, "failed")
    /\ exit_code' = [exit_code EXCEPT ![r] = "1"]

\* 1. get_latest_tag
GetLatestTag(r) ==
    /\ pc[r] = "start"
    /\ \E ok \in BOOLEAN :
        /\ Log(r, <<Call("get_tags", Status(ok))>>)
        /\ IF ok
           THEN /\ last_tag' = [last_tag EXCEPT ![r] =
                        IF host_tags = <<>> THEN DefaultTag ELSE host_tags[1]]
                /\ Goto(r, "tag_fetched")
                /\ UNCHANGED exit_code
           ELSE /\ Exit1(r)
                /\ UNCHANGED last_tag
    /\ UNCHANGED <<host_vars, loop_vars, config, commit_counts, new_tag, mr_id,
                   mr_state, merge_request>>

\* 2. count_commits_by_type(last_tag): _get_commit_date, the commit list,
\* the counting loop.
CountCommits(r) ==
    /\ pc[r] = "tag_fetched"
    /\ \E date_ok, list_ok \in BOOLEAN :
        IF ~date_ok
        THEN /\ Log(r, <<Call("get_commit_date", "error")>>)
             /\ Exit1(r)
             /\ UNCHANGED commit_counts
        ELSE IF ~list_ok
        THEN /\ Log(r, <<Call("get_commit_date", "ok"),
                          Call("get_commits", "error")>>)
             /\ Exit1(r)
             /\ UNCHANGED commit_counts
        ELSE LET listed == HostListCommits(SentParams)
                 ts == [i \in 1..Len(listed) |-> listed[i].title]
             IN /\ Log(r, <<Call("get_commit_date", "ok"),
                             Call("get_commits", "ok")>>)
                /\ commit_counts' = [commit_counts EXCEPT ![r] = CountLoop(ts)]
                /\ Goto(r, "commits_classified")
                /\ UNCHANGED exit_code
    /\ UNCHANGED <<host_vars, loop_vars, config, last_tag, new_tag, mr_id,
                   mr_state, merge_request>>

\* 3. generate_new_tag(last_tag, commit_counts)
GenerateNewTag(r) ==
    /\ pc[r] = "commits_classified"
    /\ LET res == GenerateNewTagResult(last_tag[r], commit_counts[r])
       IN IF res.exit
          THEN /\ Exit1(r)
               /\ UNCHANGED new_tag
          ELSE /\ new_tag' = [new_tag EXCEPT ![r] = res.tag]
               /\ Goto(r, "version_computed")
               /\ UNCHANGED exit_code
    /\ UNCHANGED <<host_vars, loop_vars, config, last_tag, commit_counts, mr_id,
                   mr_state, merge_request, calls>>

\* CreateMergeRequest that looks for a request of the branch pair first and
\* takes it over instead of opening another one.
CreateMergeRequestReusing(r) ==
    /\ pc[r] = "version_computed"
    /\ LET same == {i \in 1..Len(host_mrs) :
                      /\ host_mrs[i].source_branch = config.source_branch
                      /\ host_mrs[i].target_branch = config.target_branch}
       IN IF same # {}
          THEN /\ mr_id' = [mr_id EXCEPT ![r] = CHOOSE i \in same : TRUE]
               /\ Goto(r, "request_opened")
               /\ UNCHANGED <<host_mrs, calls, exit_code>>
          ELSE \E ok \in BOOLEAN :
                /\ Log(r, <<Call("create_merge_request", Status(ok))>>)
                /\ IF ok
                   THEN /\ host_mrs' = Append(host_mrs,
                                [source_branch |-> config.source_branch,
                                 target_branch |-> config.target_branch,
                                 title_tag |-> new_tag[r]])
                        /\ mr_id' = [mr_id EXCEPT ![r] = Len(host_mrs) + 1]
                        /\ Goto(r, "request_opened")
                        /\ UNCHANGED exit_code
                   ELSE /\ Exit1(r)
                        /\ UNCHANGED <<host_mrs, mr_id>>
    /\ UNCHANGED <<host_default, host_tags, host_commits, loop_vars, config,
                   last_tag, commit_counts, new_tag, mr_state, merge_request>>

\* 4./5. the title and create_merge_request(source_branch, target_branch, title)
CreateMergeRequest(r) ==
    /\ pc[r] = "version_computed"
    /\ \E ok \in BOOLEAN :
        /\ Log(r, <<Call("create_merge_request", Status(ok))>>)
        /\ IF ok
           THEN /\ host_mrs' = Append(host_mrs,
                        [source_branch |-> config.source_branch,
                         target_branch |-> config.target_branch,
                         title_tag |-> new_tag[r]])
                /\ mr_id' = [mr_id EXCEPT ![r] = Len(host_mrs) + 1]
                /\ Goto(r, "request_opened")
                /\ UNCHANGED exit_code
           ELSE /\ Exit1(r)
                /\ UNCHANGED <<host_mrs, mr_id>>
    /\ UNCHANGED <<host_default, host_tags, host_commits, loop_vars, config,
                   last_tag, commit_counts, new_tag, mr_state, merge_request>>

\* 6. one iteration of the prepared poll: check_for_conflicts(mr_id), and
\* break when prepared_at is set.
PollPrepared(r) ==
    /\ pc[r] = "request_opened"
    /\ \/ /\ Log(r, <<Call("get_mr", "error")>>)
          /\ Exit1(r)
          /\ UNCHANGED mr_state
       \/ \E snap \in Snapshots :
            /\ mr_state' = [mr_state EXCEPT ![r] = snap]
            /\ Goto(r, IF snap.prepared_at THEN "request_prepared"
                                            ELSE "request_opened")
            /\ UNCHANGED <<calls, exit_code>>
    /\ UNCHANGED <<host_vars, loop_vars, config, last_tag, commit_counts,
                   new_tag, mr_id, merge_request>>

\* CheckConflicts without the exit: conflicts are reported and passed over.
CheckConflictsNoExit(r) ==
    /\ pc[r] = "request_prepared"
    /\ Goto(r, "conflict_checked")
    /\ UNCHANGED <<host_vars, loop_vars, config, last_tag, commit_counts,
                   new_tag, mr_id, mr_state, merge_request, calls, exit_code>>

\* has_conflicts = mr_state["has_conflicts"]; if has_conflicts: sys.exit(1)
CheckConflicts(r) ==
    /\ pc[r] = "request_prepared"
    /\ IF mr_state[r].has_conflicts
       THEN Exit1(r)
       ELSE Goto(r, "conflict_checked") /\ UNCHANGED exit_code
    /\ UNCHANGED <<host_vars, loop_vars, config, last_tag, commit_counts,
                   new_tag, mr_id, mr_state, merge_request, calls>>

\* self.emojis
Emojis == <<"no_mouth", "thumbsup">>

\* The requests approve_merge_request sends: the approval, then one
\* award_emoji post per emoji, whatever the approval answered.
ApproveCalls(ok) ==
    <<Call("approve", Status(ok))>>
    \o [i \in 1..Len(Emojis) |-> Call("award_emoji", "ignored")]

\* ApproveMergeRequest fetching the request again first: a conflict the host
\* reports by then stops the run before the approval.
ApproveMergeRequestRefetching(r) ==
    /\ pc[r] = "conflict_checked"
    /\ \E snap \in Snapshots :
        /\ mr_state' = [mr_state EXCEPT ![r] = snap]
        /\ IF snap.has_conflicts
           THEN Exit1(r) /\ UNCHANGED calls
           ELSE \E ok \in BOOLEAN :
                 /\ Log(r, ApproveCalls(ok))
                 /\ IF ok THEN Goto(r, "approved") /\ UNCHANGED exit_code
                          ELSE Exit1(r)
    /\ UNCHANGED <<host_vars, loop_vars, config, last_tag, commit_counts,
                   new_tag, mr_id, merge_request>>

\* ApproveMergeRequest without the test of its result: a rejected approval
\* is passed over.
ApproveMergeRequestUnchecked(r) ==
    /\ pc[r] = "conflict_checked"
    /\ \E ok \in BOOLEAN : Log(r, ApproveCalls(ok))
    /\ Goto(r, "approved")
    /\ UNCHANGED <<host_vars, loop_vars, config, last_tag, commit_counts,
                   new_tag, mr_id, mr_state, merge_request, exit_code>>

\* approve_merge_request(mr_id) and the test of its result
ApproveMergeRequest(r) ==
    /\ pc[r] = "conflict_checked"
    /\ \E ok \in BOOLEAN :
        /\ Log(r, ApproveCalls(ok))
        /\ IF ok THEN Goto(r, "approved") /\ UNCHANGED exit_code ELSE Exit1(r)
    /\ UNCHANGED <<host_vars, loop_vars, config, last_tag, commit_counts,
                   new_tag, mr_id, mr_state, merge_request>>

\* MergeMr without the test of its result: a rejected merge is passed over.
MergeMrUnchecked(r) ==
    /\ pc[r] = "approved"
    /\ \E ok \in BOOLEAN : Log(r, <<Call("merge", Status(ok))>>)
    /\ Goto(r, "merge_requested")
    /\ UNCHANGED <<host_vars, loop_vars, config, last_tag, commit_counts,
                   new_tag, mr_id, mr_state, merge_request, exit_code>>

\* merge_mr(mr_id) and the test of its result
MergeMr(r) ==
    /\ pc[r] = "approved"
    /\ \E ok \in BOOLEAN :
        /\ Log(r, <<Call("merge", Status(ok))>>)
        /\ IF ok THEN Goto(r, "merge_requested") /\ UNCHANGED exit_code
                 ELSE Exit1(r)
    /\ UNCHANGED <<host_vars, loop_vars, config, last_tag, commit_counts,
                   new_tag, mr_id, mr_state, merge_request>>

\* PollMerged breaking on any state but "opened": a closed request ends the
\* loop like a merged one.
PollMergedNotOpened(r) ==
    /\ pc[r] = "merge_requested"
    /\ \/ /\ Log(r, <<Call("get_mr", "error")>>)
          /\ Exit1(r)
          /\ UNCHANGED merge_request
       \/ \E snap \in Snapshots :
            /\ merge_request' = [merge_request EXCEPT ![r] = snap]
            /\ Goto(r, IF snap.state # "opened" THEN "merged"
                                                 ELSE "merge_requested")
            /\ UNCHANGED <<calls, exit_code>>
    /\ UNCHANGED <<host_vars, loop_vars, config, last_tag, commit_counts,
                   new_tag, mr_id, mr_state>>

\* PollMerged without the break: the loop goes on after state == "merged".
PollMergedNoBreak(r) ==
    /\ pc[r] = "merge_requested"
    /\ \/ /\ Log(r, <<Call("get_mr", "error")>>)
          /\ Exit1(r)
          /\ UNCHANGED merge_request
       \/ \E snap \in Snapshots :
            /\ merge_request' = [merge_request EXCEPT ![r] = snap]
            /\ UNCHANGED <<pc, calls, exit_code>>
    /\ UNCHANGED <<host_vars, loop_vars, config, last_tag, commit_counts,
                   new_tag, mr_id, mr_state>>

\* One iteration of the merged poll: sleep, check_for_conflicts(mr_id), and
\* break when state == "merged".
PollMerged(r) ==
    /\ pc[r] = "merge_requested"
    /\ \/ /\ Log(r, <<Call("get_mr", "error")>>)
          /\ Exit1(r)
          /\ UNCHANGED merge_request
       \/ \E snap \in Snapshots :
            /\ merge_request' = [merge_request EXCEPT ![r] = snap]
            /\ Goto(r, IF snap.state = "merged" THEN "merged"
                                                 ELSE "merge_requested")
            /\ UNCHANGED <<calls, exit_code>>
    /\ UNCHANGED <<host_vars, loop_vars, config, last_tag, commit_counts,
                   new_tag, mr_id, mr_state>>

\* The ref run_release_proccess hands to create_tag.
TagRef == "main"

\* create_tag(new_tag, "main"), the test of its result, and the normal end
\* of the process.
CreateTag(r) ==
    /\ pc[r] = "merged"
    /\ \E ok \in BOOLEAN :
        /\ Log(r, <<[op |-> "create_tag", status |-> Status(ok),
                     name |-> new_tag[r], ref |-> TagRef]>>)
        /\ IF ok
           THEN /\ host_tags' = <<new_tag[r]>> \o host_tags
                /\ Goto(r, "done")
                /\ exit_code' = [exit_code EXCEPT ![r] = "0"]
           ELSE /\ Exit1(r)
                /\ UNCHANGED host_tags
    /\ UNCHANGED <<host_default, host_commits, host_mrs, loop_vars, config,
                   last_tag, commit_counts, new_tag, mr_id, mr_state,
                   merge_request>>

LoopIdle ==
    /\ commits = <<>>
    /\ idx = 0
    /\ counts = ZeroCounts
    /\ perm_commits = <<>>
    /\ perm_counts = ZeroCounts

\* The first process has been launched; the second has not.
RunInit ==
    /\ pc = [r \in RunIds |-> IF r = 1 THEN "start" ELSE "idle"]
    /\ last_tag = [r \in RunIds |-> <<>>]
    /\ commit_counts = [r \in RunIds |-> ZeroCounts]
    /\ new_tag = [r \in RunIds |-> <<>>]
    /\ mr_id = [r \in RunIds |-> 0]
    /\ mr_state = [r \in RunIds |-> NoSnapshot]
    /\ merge_request = [r \in RunIds |-> NoSnapshot]
    /\ calls = [r \in RunIds |-> <<>>]
    /\ exit_code = [r \in RunIds |-> "running"]

\* A release run against a host with at most one tag and a few commits.
Init ==
    /\ config \in Configs
    /\ host_default \in Branches
    /\ host_tags \in {<<>>} \cup {<<t>> : t \in RunTags}
    /\ host_commits \in SeqsUpTo(HostCommits, MaxCommits)
    /\ host_mrs = <<>>
    /\ RunInit
    /\ LoopIdle

\* One step of run_release_proccess in process r.
RunStep(r) ==
    \/ GetLatestTag(r)
    \/ CountCommits(r)
    \/ GenerateNewTag(r)
    \/ CreateMergeRequest(r)
    \/ PollPrepared(r)
    \/ CheckConflicts(r)
    \/ ApproveMergeRequest(r)
    \/ MergeMr(r)
    \/ PollMerged(r)
    \/ CreateTag(r)

Next == \E r \in RunIds : RunStep(r)

Spec == Init /\ [][Next]_vars

\* --------------------------------------------- generate_new_tag on its own

HostIdle ==
    /\ host_default = "main"
    /\ host_tags = <<>>
    /\ host_commits = <<>>
    /\ host_mrs = <<>>

\* generate_new_tag called with any tag name and any counts.
InitTag ==
    /\ HostIdle
    /\ config = DefaultConfig
    /\ RunInit
    /\ LoopIdle

\* The caller's arguments: last_tag and commit_counts.
CallGenerateNewTag(r) ==
    /\ pc[r] = "start"
    /\ \E t \in TagNames, cc \in [fix : 0..MaxCount, feat : 0..MaxCount] :
        /\ last_tag' = [last_tag EXCEPT ![r] = t]
        /\ commit_counts' = [commit_counts EXCEPT ![r] = cc]
    /\ Goto(r, "commits_classified")
    /\ UNCHANGED <<host_vars, loop_vars, config, new_tag, mr_id, mr_state,
                   merge_request, calls, exit_code>>

NextTag == \E r \in RunIds : CallGenerateNewTag(r) \/ GenerateNewTag(r)

SpecTag == InitTag /\ [][NextTag]_vars

\* ------------------------------------------------ the counting loop on its own

RunIdle ==
    /\ config = DefaultConfig
    /\ pc = [r \in RunIds |-> "idle"]
    /\ last_tag = [r \in RunIds |-> <<>>]
    /\ commit_counts = [r \in RunIds |-> ZeroCounts]
    /\ new_tag = [r \in RunIds |-> <<>>]
    /\ mr_id = [r \in RunIds |-> 0]
    /\ mr_state = [r \in RunIds |-> NoSnapshot]
    /\ merge_request = [r \in RunIds |-> NoSnapshot]
    /\ calls = [r \in RunIds |-> <<>>]
    /\ exit_code = [r \in RunIds |-> "running"]

\* counts = {"fix": 0, "feat": 0} before the loop over any list of titles.
InitCount ==
    /\ HostIdle
    /\ RunIdle
    /\ commits \in SeqsUpTo(Titles, MaxTitles)
    /\ idx = 0
    /\ counts = ZeroCounts
    /\ perm_commits = <<>>
    /\ perm_counts = ZeroCounts

\* for commit in commits: one iteration
CountCommit ==
    /\ idx < Len(commits)
    /\ counts' = CountStep(counts, commits[idx + 1])
    /\ idx' = idx + 1
    /\ UNCHANGED <<host_vars, run_vars, commits, perm_commits, perm_counts>>

NextCount == CountCommit

SpecCount == InitCount /\ [][NextCount]_vars

\* The rearrangements of a sequence.
Rearrangements(s) ==
    {[i \in 1..Len(s) |-> s[p[i]]] : p \in Permutations(1..Len(s))}

\* The loop over a list of titles and over a rearrangement of it.
InitPerm ==
    /\ HostIdle
    /\ RunIdle
    /\ commits \in SeqsUpTo(Titles, MaxPerm)
    /\ perm_commits \in Rearrangements(commits)
    /\ idx = 0
    /\ counts = ZeroCounts
    /\ perm_counts = ZeroCounts

\* One iteration of both loops.
CountBoth ==
    /\ idx < Len(commits)
    /\ counts' = CountStep(counts, commits[idx + 1])
    /\ perm_counts' = CountStep(perm_counts, perm_commits[idx + 1])
    /\ idx' = idx + 1
    /\ UNCHANGED <<host_vars, run_vars, commits, perm_commits>>

NextPerm == CountBoth

SpecPerm == InitPerm /\ [][NextPerm]_vars

\* ------------------------------------- the counting loop and generate_new_tag

\* Process 1 has fetched the tag v1.2.3 or v2.0.0 and counts any list of
\* titles.
InitClassify ==
    /\ HostIdle
    /\ config = DefaultConfig
    /\ pc = [r \in RunIds |-> IF r = 1 THEN "tag_fetched" ELSE "idle"]
    /\ \E t \in {FormatTag(1, 2, 3), FormatTag(2, 0, 0)} :
         last_tag = [r \in RunIds |-> IF r = 1 THEN t ELSE <<>>]
    /\ commit_counts = [r \in RunIds |-> ZeroCounts]
    /\ new_tag = [r \in RunIds |-> <<>>]
    /\ mr_id = [r \in RunIds |-> 0]
    /\ mr_state = [r \in RunIds |-> NoSnapshot]
    /\ merge_request = [r \in RunIds |-> NoSnapshot]
    /\ calls = [r \in RunIds |-> <<>>]
    /\ exit_code = [r \in RunIds |-> "running"]
    /\ commits \in SeqsUpTo(Titles, MaxTitles)
    /\ idx = 0
    /\ counts = ZeroCounts
    /\ perm_commits = <<>>
    /\ perm_counts = ZeroCounts

\* return counts, and commit_counts = self.count_commits_by_type(...)
ReturnCounts(r) ==
    /\ pc[r] = "tag_fetched"
    /\ idx = Len(commits)
    /\ commit_counts' = [commit_counts EXCEPT ![r] = counts]
    /\ Goto(r, "commits_classified")
    /\ UNCHANGED <<host_vars, loop_vars, config, last_tag, new_tag, mr_id,
                   mr_state, merge_request, calls, exit_code>>

NextClassify ==
    \/ CountCommit
    \/ \E r \in RunIds : ReturnCounts(r) \/ GenerateNewTag(r)

SpecClassify == InitClassify /\ [][NextClassify]_vars

\* ------------------------------------------------------ more than one run

\* A host with the tag v1.2.3 or an odd tag, and no commit or one feature
\* commit on its default branch.
InitHost ==
    /\ config \in Configs
    /\ host_default = "main"
    /\ host_tags \in {<<FormatTag(1, 2, 3)>>,
                      <<<<"v", "1", ".", "2", ".", "3", ".", "4">>>>}
    /\ host_commits \in
         {<<>>, <<[title |-> <<"f", "e", "a", "t", ":", " ", "a">>,
                   branch |-> "main", newer |-> TRUE]>>}
    /\ host_mrs = <<>>

InitRuns ==
    /\ InitHost
    /\ RunInit
    /\ LoopIdle

\* __main__: a process is launched and builds its GitlabReleaseManager.
StartRun(r) ==
    /\ pc[r] = "idle"
    /\ Goto(r, "start")
    /\ UNCHANGED <<host_vars, loop_vars, config, last_tag, commit_counts,
                   new_tag, mr_id, mr_state, merge_request, calls, exit_code>>

\* The process is launched once every earlier process has ended.
Rerun(r) ==
    /\ \A q \in RunIds \ {r} : pc[q] \in {"done", "failed"}
    /\ StartRun(r)

\* Runs one after the other: the orchestrator is run again after a run ended.
NextRerun == Next \/ \E r \in RunIds : Rerun(r)

SpecRerun == InitRuns /\ [][NextRerun]_vars

\* Runs side by side: the second process is launched at any time.
NextRuns == Next \/ \E r \in RunIds : StartRun(r)

SpecRuns == InitRuns /\ [][NextRuns]_vars

\* ------------------------------------------------------------- a run that ends

\* Every host call of the process returns, the host comes to report
\* prepared_at set, and comes to report state == merged.
HostAnswers(r) ==
    /\ WF_vars(RunStep(r))
    /\ WF_vars(PollPrepared(r) /\ mr_state'[r].prepared_at)
    /\ WF_vars(PollMerged(r) /\ merge_request'[r].state = "merged")

SpecLive == InitRuns /\ [][Next]_vars /\ \A r \in RunIds : HostAnswers(r)

\* ============================================================== properties

\* (major, minor, patch) of a tag name, as the code reads them.
Version(tag) == TagMatch(tag).groups

\* The tag name is exactly v<digits>.<digits>.<digits>.
ExactForm(tag) == TagMatch(tag).ok /\ TagMatch(tag).end = Len(tag)

\* a is below b in (major, minor, patch) order.
VersionLess(a, b) ==
    \/ a[1] < b[1]
    \/ a[1] = b[1] /\ a[2] < b[2]
    \/ a[1] = b[1] /\ a[2] = b[2] /\ a[3] < b[3]

\* The requests of run r with one of the given operations.
CallsOf(r, ops) == SelectSeq(calls[r], LAMBDA c : c.op \in ops)

\* C1: the tag a run passes to create_tag is strictly above the previous
\* tag in (major, minor, patch) order, whatever the commits counted.
C1_TagAbovePrevious ==
    \A r \in RunIds :
        \A i \in 1..Len(calls[r]) :
            calls[r][i].op = "create_tag" =>
                VersionLess(Version(last_tag[r]), Version(calls[r][i].name))

\* C2: a run that reaches DONE has called create_tag exactly once, with the
\* computed next tag as name and the configured target branch as ref.
C2_TagOnceOnTargetBranch ==
    \A r \in RunIds :
        pc[r] = "done" =>
            CallsOf(r, {"create_tag"}) =
                <<[op |-> "create_tag", status |-> "ok",
                   name |-> new_tag[r], ref |-> config.target_branch]>>

\* C3: when the snapshot in which prepared_at is first seen set reports
\* conflicts, the run is about to fail or has failed with exit status 1, its
\* next step is the failure, and it has sent no approve, merge or
\* create_tag request.
C3_ConflictsAbort ==
    /\ [](\A r \in RunIds :
            mr_state[r].prepared_at /\ mr_state[r].has_conflicts =>
                /\ pc[r] \in {"request_prepared", "failed"}
                /\ pc[r] = "failed" => exit_code[r] = "1"
                /\ CallsOf(r, {"approve", "award_emoji", "merge",
                               "create_tag"}) = <<>>)
    /\ [][\A r \in RunIds :
            pc[r] = "request_prepared" /\ mr_state[r].has_conflicts
            /\ pc'[r] # pc[r] => pc'[r] = "failed"]_vars

\* C3 witness: a run failed on a prepared snapshot that reports conflicts.
C3_Witness ==
    \E r \in RunIds :
        /\ pc[r] = "failed"
        /\ mr_state[r].prepared_at
        /\ mr_state[r].has_conflicts
        /\ mr_id[r] > 0

\* Both counting loops have gone through their list.
LoopsDone == idx = Len(commits)

\* C4 as stated: the loop over a rearranged list ends with the same counts.
C4_OrderIndependent == LoopsDone => counts = perm_counts

\* The titles of Titles that hold the marker "feat:" in any case, anywhere:
\* "feat: a", "FeAt:x", "x feat:".
FeatTitles ==
    { <<"f", "e", "a", "t", ":", " ", "a">>,
      <<"F", "e", "A", "t", ":", "x">>,
      <<"x", " ", "f", "e", "a", "t", ":">> }

\* The number of feature titles of a list.
NumFeat(ts) == Cardinality({i \in 1..Len(ts) : ts[i] \in FeatTitles})

\* The number of titles after the last feature title of a list that has one.
AfterLastFeat(ts) ==
    Len(ts) - (CHOOSE i \in 1..Len(ts) :
                 /\ ts[i] \in FeatTitles
                 /\ \A j \in (i + 1)..Len(ts) : ts[j] \notin FeatTitles)

\* What the loop is to end with on a list.
ExpectedCounts(ts) ==
    [feat |-> NumFeat(ts),
     fix |-> IF NumFeat(ts) = 0 THEN Len(ts) ELSE 1 + AfterLastFeat(ts)]

\* C4 amended: a rearranged list ends with the same feat count, and with the
\* same fix count when it has no feature title; with a feature title the
\* fix count is 1 plus the number of titles after the last feature title.
C4_FeatOrderIndependent ==
    LoopsDone =>
        /\ counts.feat = perm_counts.feat
        /\ counts.feat = 0 => counts.fix = perm_counts.fix
        /\ counts = ExpectedCounts(commits)
        /\ perm_counts = ExpectedCounts(perm_commits)

\* C4 witness: a rearranged list with a feature title has been counted, and
\* the fix counts differ.
C4_Witness ==
    /\ LoopsDone
    /\ perm_commits # commits
    /\ counts.feat > 0
    /\ counts.feat = perm_counts.feat
    /\ counts.fix # perm_counts.fix

\* C5: with no commit counted, generate_new_tag returns the previous tag
\* with its patch number raised by one.
C5_EmptyRaisesPatch ==
    \A r \in RunIds :
        pc[r] = "version_computed" /\ commit_counts[r] = ZeroCounts =>
            LET v == Version(last_tag[r])
            IN new_tag[r] = FormatTag(v[1], v[2], v[3] + 1)

\* C6: for a well-formed previous tag, generate_new_tag keeps major; with
\* features and fixes it adds feat to minor and makes patch the fix count;
\* with fixes alone it keeps minor and adds fix to patch.
C6_BumpRules ==
    \A r \in RunIds :
        pc[r] = "version_computed" /\ ExactForm(last_tag[r]) =>
            LET v == Version(last_tag[r])
                cc == commit_counts[r]
            IN /\ Version(new_tag[r])[1] = v[1]
               /\ ExactForm(new_tag[r])
               /\ cc.feat > 0 /\ cc.fix > 0 =>
                    new_tag[r] = FormatTag(v[1], v[2] + cc.feat, cc.fix)
               /\ cc.feat = 0 /\ cc.fix > 0 =>
                    new_tag[r] = FormatTag(v[1], v[2], v[3] + cc.fix)

\* C6 witness: v1.2.3 with 2 features and 5 fixes has become v1.4.5.
C6_Witness ==
    \E r \in RunIds :
        /\ pc[r] = "version_computed"
        /\ last_tag[r] = <<"v", "1", ".", "2", ".", "3">>
        /\ commit_counts[r] = [fix |-> 5, feat |-> 2]
        /\ new_tag[r] = <<"v", "1", ".", "4", ".", "5">>

\* C7: the counts start at zero; an iteration on a title that holds "feat:"
\* (in any case, anywhere) adds 1 to feat and makes fix 1, an iteration on
\* any other title adds 1 to fix and keeps feat; fix, fix, feat, fix ends
\* with feat 1 and fix 2.
C7_CountingLoop ==
    /\ [](idx = 0 => counts = ZeroCounts)
    /\ [][idx' = idx + 1 =>
            IF commits[idx + 1] \in FeatTitles
            THEN counts'.feat = counts.feat + 1 /\ counts'.fix = 1
            ELSE counts'.fix = counts.fix + 1 /\ counts'.feat = counts.feat]_vars
    /\ [](/\ Len(commits) = 4
          /\ idx = 4
          /\ \A i \in {1, 2, 4} : commits[i] \notin FeatTitles
          /\ commits[3] \in FeatTitles
          => counts = [fix |-> 2, feat |-> 1])

\* C7 witness: fix, fix, FeAt, fix has been counted as feat 1, fix 2.
C7_Witness ==
    /\ commits = << <<"f", "i", "x", ":", " ", "a">>,
                    <<"f", "e", "a", "t", " ", "a">>,
                    <<"F", "e", "A", "t", ":", "x">>,
                    <<"f", "i", "x", ":", " ", "a">> >>
    /\ idx = 4
    /\ counts = [fix |-> 2, feat |-> 1]

\* The run has gone past generate_new_tag (or has failed before its end).
PastGenerate(r) ==
    pc[r] \notin {"idle", "start", "tag_fetched", "commits_classified"}

\* C8: a run whose latest tag is not exactly v<digits>.<digits>.<digits>
\* fails at generate_new_tag: it computes no next tag, opens no merge
\* request and creates no tag.
C8_OddTagAborts ==
    \A r \in RunIds :
        PastGenerate(r) /\ ~ExactForm(last_tag[r]) =>
            /\ pc[r] = "failed"
            /\ new_tag[r] = <<>>
            /\ CallsOf(r, {"create_merge_request", "create_tag"}) = <<>>

\* The titles of the host's commits on the configured source branch that
\* are newer than the latest tag.
TitlesSinceTag ==
    LET InScope(c) == c.branch = config.source_branch /\ c.newer
        cs == SelectSeq(host_commits, InScope)
    IN [i \in 1..Len(cs) |-> cs[i].title]

\* The run has fetched the commit list and counted it.
Classified(r) ==
    \E i \in 1..Len(calls[r]) : calls[r][i] = Call("get_commits", "ok")

\* C9: the counts of a run are those of the commits of the configured source
\* branch that are newer than the latest tag, and of no other commit.
C9_CountsSourceSinceTag ==
    \A r \in RunIds :
        Classified(r) => commit_counts[r] = CountLoop(TitlesSinceTag)

\* The operations whose non-success answer is fatal.
FatalOps ==
    {"get_tags", "get_commit_date", "get_commits", "create_merge_request",
     "get_mr", "approve", "merge", "create_tag"}

\* C10: a non-success answer to a host operation ends the run in FAILED with
\* exit status 1; nothing is sent after it but the award_emoji posts of a
\* rejected approve; FAILED is final and leaves the host's merge requests in
\* place; exit status 0 goes with DONE alone.
C10_FailureIsFatal ==
    /\ [](\A r \in RunIds :
            /\ \A i \in 1..Len(calls[r]) :
                 calls[r][i].status = "error" =>
                    /\ calls[r][i].op \in FatalOps
                    /\ pc[r] = "failed"
                    /\ \A j \in (i + 1)..Len(calls[r]) :
                         /\ calls[r][j].op = "award_emoji"
                         /\ calls[r][i].op = "approve"
            /\ pc[r] = "failed" <=> exit_code[r] = "1"
            /\ pc[r] = "done" <=> exit_code[r] = "0")
    /\ [][\A r \in RunIds :
            pc[r] = "failed" =>
                /\ pc'[r] = "failed"
                /\ calls'[r] = calls[r]
                /\ host_mrs' = host_mrs]_vars

\* C10 witness: a run has failed on a rejected merge, after its merge
\* request was opened and approved, and the merge request is still there.
C10_Witness ==
    \E r \in RunIds :
        /\ pc[r] = "failed"
        /\ exit_code[r] = "1"
        /\ Len(calls[r]) > 0
        /\ calls[r][Len(calls[r])] = Call("merge", "error")
        /\ mr_id[r] \in 1..Len(host_mrs)

\* The positions of a run before create_merge_request.
BeforeRequest == {"idle", "start", "tag_fetched", "commits_classified",
                  "version_computed"}

\* The positions of a run after create_merge_request succeeded, FAILED apart.
AfterRequest == {"request_opened", "request_prepared", "conflict_checked",
                 "approved", "merge_requested", "merged", "done"}

\* The runs whose merge request the host has opened.
Opened == {r \in RunIds : mr_id[r] > 0}

\* C11: a run sends create_merge_request once it is past the version
\* computation, exactly once, whatever requests the host already holds;
\* every accepted request is a new one on the host, so when a run has failed
\* with its request open and a later run has opened its own, the host holds
\* two requests for the same branch pair.
C11_RerunOpensAnotherRequest ==
    /\ \A r \in RunIds :
        /\ pc[r] \in BeforeRequest =>
             CallsOf(r, {"create_merge_request"}) = <<>>
        /\ pc[r] \in AfterRequest =>
             CallsOf(r, {"create_merge_request"}) =
                <<Call("create_merge_request", "ok")>>
        /\ Len(CallsOf(r, {"create_merge_request"})) <= 1
        /\ mr_id[r] > 0 <=>
             Call("create_merge_request", "ok") \in
                {calls[r][i] : i \in 1..Len(calls[r])}
        /\ mr_id[r] > 0 =>
             /\ mr_id[r] <= Len(host_mrs)
             /\ host_mrs[mr_id[r]] =
                  [source_branch |-> config.source_branch,
                   target_branch |-> config.target_branch,
                   title_tag |-> new_tag[r]]
    /\ \A r, q \in Opened : r # q => mr_id[r] # mr_id[q]
    /\ Len(host_mrs) = Cardinality(Opened)

\* C11 witness: the first run failed with its request open, the second run,
\* launched after that, opened a second request for the same branch pair.
C11_Witness ==
    /\ pc[1] = "failed"
    /\ mr_id[1] = 1
    /\ mr_id[2] = 2
    /\ Len(host_mrs) = 2
    /\ host_mrs[1].source_branch = host_mrs[2].source_branch
    /\ host_mrs[1].target_branch = host_mrs[2].target_branch

\* The create_tag requests of run r.
TagCalls(r) == CallsOf(r, {"create_tag"})

\* C12: runs against the same host and branch pair do not see each other:
\* a run at create_merge_request or create_tag can always send it, two runs
\* that have opened a request hold two different requests for the same
\* branch pair, two runs that read the same latest tag and the same counts
\* compute the same next tag, and each sends create_tag with its own next
\* tag.
C12_RunsUncoordinated ==
    /\ \A r \in RunIds :
        /\ pc[r] = "version_computed" => ENABLED CreateMergeRequest(r)
        /\ pc[r] = "merged" => ENABLED CreateTag(r)
        /\ \A i \in 1..Len(TagCalls(r)) : TagCalls(r)[i].name = new_tag[r]
    /\ \A r, q \in Opened :
        r # q =>
            /\ mr_id[r] # mr_id[q]
            /\ host_mrs[mr_id[r]].source_branch = host_mrs[mr_id[q]].source_branch
            /\ host_mrs[mr_id[r]].target_branch = host_mrs[mr_id[q]].target_branch
    /\ \A r, q \in RunIds :
        /\ new_tag[r] # <<>>
        /\ new_tag[q] # <<>>
        /\ last_tag[r] = last_tag[q]
        /\ commit_counts[r] = commit_counts[q]
        => new_tag[r] = new_tag[q]

\* C12 witness: both runs have opened a request for the same branch pair,
\* both computed the same next tag from the same latest tag, the first has
\* created the tag and the second, which read the tags before that, has sent
\* create_tag with the same name.
C12_Witness ==
    /\ Opened = {1, 2}
    /\ mr_id[1] # mr_id[2]
    /\ last_tag[1] = last_tag[2]
    /\ new_tag[1] = new_tag[2]
    /\ TagCalls(1) # <<>>
    /\ TagCalls(2) # <<>>
    /\ TagCalls(1)[1].status = "ok"
    /\ TagCalls(1)[1].name = TagCalls(2)[1].name

\* The places of a run: its end, its two polling loops, and the rest.
Terminal == {"done", "failed"}

Polling == {"request_opened", "merge_requested"}

Straight == {"start", "tag_fetched", "commits_classified", "version_computed",
             "request_prepared", "conflict_checked", "approved", "merged"}

\* C13: a started run is always at its end, in a polling loop or at a
\* straight-line step; an ended run stays ended; a step that leaves a run
\* where it was is an iteration of one of the two polling loops; from a
\* straight-line step the run comes to a polling loop or to its end; and when the host answers every call,
\* comes to report prepared_at set and comes to report state == merged, a
\* started run reaches done or failed.
C13_RunEnds ==
    /\ [](\A r \in RunIds : pc[r] \in Terminal \cup Polling \cup Straight \cup {"idle"})
    /\ [][\A r \in RunIds :
            /\ pc[r] \in Terminal => pc'[r] = pc[r]
            /\ (pc'[r] = pc[r] /\ pc[r] \notin Polling) =>
                  /\ calls'[r] = calls[r]
                  /\ mr_state'[r] = mr_state[r]
                  /\ merge_request'[r] = merge_request[r]
                  /\ mr_id'[r] = mr_id[r]
                  /\ new_tag'[r] = new_tag[r]]_vars
    /\ \A r \in RunIds : (pc[r] \in Straight) ~> (pc[r] \in Terminal \cup Polling)
    /\ \A r \in RunIds : (pc[r] # "idle") ~> (pc[r] \in Terminal)

\* C13 witness: a run went through both polling loops and reached done.
C13_Witness ==
    /\ pc[1] = "done"
    /\ mr_state[1].prepared_at
    /\ merge_request[1].state = "merged"
    /\ exit_code[1] = "0"

\* The four host writes of a run, in the order the run issues them.
WriteOrder == <<"create_merge_request", "approve", "merge", "create_tag">>

Writes(r) == CallsOf(r, {WriteOrder[i] : i \in 1..Len(WriteOrder)})

\* C14: the writes a run has issued are the first ones of open request,
\* approve, merge, create_tag, in that order and each once, and each was
\* issued after the one before it succeeded; approve was issued with the
\* fetched snapshot prepared and free of conflicts, merge after approve
\* answered success, create_tag with a fetched state of merged; and the
\* snapshot create_tag relies on is only ever fetched after the merge call.
C14_WriteOrder ==
    /\ [](\A r \in RunIds :
            LET w == Writes(r)
            IN /\ Len(w) <= Len(WriteOrder)
               /\ \A i \in 1..Len(w) : w[i].op = WriteOrder[i]
               /\ \A i \in 1..(Len(w) - 1) : w[i].status = "ok"
               /\ Len(w) >= 2 =>
                    /\ mr_state[r].prepared_at
                    /\ ~mr_state[r].has_conflicts
               /\ Len(w) >= 3 => w[2].status = "ok"
               /\ Len(w) >= 4 => merge_request[r].state = "merged")
    /\ [][\A r \in RunIds :
            merge_request'[r] # merge_request[r] =>
                /\ pc[r] = "merge_requested"
                /\ Len(Writes(r)) = 3
                /\ Writes(r)[3] = Call("merge", "ok")]_vars

\* C14 witness: a run has issued all four writes.
C14_Witness ==
    /\ Len(Writes(1)) = 4
    /\ Writes(1)[4].op = "create_tag"
    /\ merge_request[1].state = "merged"

\* C15: a run in the merged poll leaves it for create_tag only on a fetched
\* snapshot whose state is merged, and fails there only on a fetch the host
\* answered with an error; a fetched snapshot with any other state (closed,
\* opened) leaves the run polling, with nothing sent; and a run that is past
\* the poll or has called create_tag holds a snapshot whose state is merged.
C15_MergedPollLeavesOnMerged ==
    /\ [][\A r \in RunIds :
            pc[r] = "merge_requested" =>
                /\ pc'[r] \in {"merge_requested", "merged", "failed"}
                /\ pc'[r] = "merged" => merge_request'[r].state = "merged"
                /\ pc'[r] = "failed" =>
                      /\ calls'[r] = Append(calls[r], Call("get_mr", "error"))
                      /\ merge_request'[r] = merge_request[r]
                /\ (merge_request'[r] # merge_request[r]
                      /\ merge_request'[r].state # "merged") =>
                      /\ pc'[r] = "merge_requested"
                      /\ calls'[r] = calls[r]
                      /\ exit_code'[r] = "running"]_vars
    /\ [](\A r \in RunIds :
            /\ pc[r] = "merge_requested" => TagCalls(r) = <<>>
            /\ (pc[r] \in {"merged", "done"} \/ TagCalls(r) # <<>>) =>
                  merge_request[r].state = "merged")

\* C15 witness: after the merge call the host answered a poll with a closed
\* request, and the run is still polling.
C15_Witness ==
    /\ pc[1] = "merge_requested"
    /\ merge_request[1].state = "closed"
    /\ CallsOf(1, {"merge"}) = <<Call("merge", "ok")>>
    /\ exit_code[1] = "running"

\* The places of a run between the end of the prepared poll and the merge
\* call.
Deciding == {"request_prepared", "conflict_checked", "approved"}

\* C16: the prepared poll ends on the snapshot its last iteration fetched,
\* which has prepared_at set, and an iteration that fetched a snapshot
\* without prepared_at goes on polling; the conflict decision follows
\* has_conflicts of that snapshot; from the end of the poll to the merge call
\* the run fetches nothing, so the snapshot it decided on stays as it was
\* while approve and merge are issued.
C16_DecisionOnPreparedSnapshot ==
    /\ [][\A r \in RunIds :
            /\ mr_state'[r] # mr_state[r] =>
                  /\ pc[r] = "request_opened"
                  /\ pc'[r] = IF mr_state'[r].prepared_at
                              THEN "request_prepared" ELSE "request_opened"
            /\ (pc[r] = "request_opened" /\ pc'[r] = "request_prepared") =>
                  mr_state'[r].prepared_at
            /\ (pc[r] = "request_prepared" /\ pc'[r] # pc[r]) =>
                  pc'[r] = IF mr_state[r].has_conflicts
                           THEN "failed" ELSE "conflict_checked"
            /\ pc[r] \in Deciding =>
                  /\ mr_state'[r] = mr_state[r]
                  /\ merge_request'[r] = merge_request[r]
                  /\ CallsOf(r, {"get_mr"})' = CallsOf(r, {"get_mr"})]_vars
    /\ [](\A r \in RunIds :
            /\ pc[r] \in Deciding => mr_state[r].prepared_at
            /\ CallsOf(r, {"approve", "merge"}) # <<>> =>
                  /\ mr_state[r].prepared_at
                  /\ ~mr_state[r].has_conflicts)

\* C16 witness: approve and merge were issued on a prepared snapshot without
\* conflicts, and the next fetch, after the merge call, reports a conflict.
C16_Witness ==
    /\ mr_state[1].prepared_at
    /\ ~mr_state[1].has_conflicts
    /\ CallsOf(1, {"approve", "merge"}) = <<Call("approve", "ok"), Call("merge", "ok")>>
    /\ merge_request[1].has_conflicts

\* "feat: a", the title of a feature commit.
FeatTitle == <<"f", "e", "a", "t", ":", " ", "a">>

\* C17: after any number of iterations of the counting loop a positive feat
\* count comes with a fix count of at least 1, and after at least one
\* iteration feat + fix is at least 1; so generate_new_tag is never called
\* with feat > 0 and fix = 0, and with a feature counted the next tag takes
\* the fix count as its patch number, whatever the previous patch number
\* was: one feature commit alone turns v1.2.3 into v1.3.1.
C17_FeatureResetsPatch ==
    /\ counts.feat > 0 => counts.fix >= 1
    /\ idx > 0 => counts.feat + counts.fix >= 1
    /\ \A r \in RunIds :
        /\ pc[r] = "commits_classified" =>
              ~(commit_counts[r].feat > 0 /\ commit_counts[r].fix = 0)
        /\ (pc[r] = "version_computed" /\ commit_counts[r].feat > 0) =>
              /\ new_tag[r] = FormatTag(Version(last_tag[r])[1],
                                         Version(last_tag[r])[2] + commit_counts[r].feat,
                                         commit_counts[r].fix)
              /\ Version(new_tag[r])[3] = commit_counts[r].fix
              /\ commit_counts[r].fix >= 1
        /\ (pc[r] = "version_computed"
              /\ last_tag[r] = FormatTag(1, 2, 3)
              /\ commits = <<FeatTitle>>) =>
              /\ new_tag[r] = FormatTag(1, 3, 1)
              /\ new_tag[r] # FormatTag(1, 3, 0)
              /\ new_tag[r] # FormatTag(1, 3, 3)

\* C17 witness: the only commit is one feature, the latest tag is v1.2.3,
\* and the next tag has been computed.
C17_Witness ==
    /\ commits = <<FeatTitle>>
    /\ last_tag[1] = FormatTag(1, 2, 3)
    /\ commit_counts[1] = [fix |-> 1, feat |-> 1]
    /\ pc[1] = "version_computed"
    /\ new_tag[1] = FormatTag(1, 3, 1)

\* C18: a rejected approval is the last request of its run: nothing, not
\* even an award_emoji post, is sent after it; and a run whose approval was
\* rejected has failed.
C18_RejectedApprovalSendsNothing ==
    \A r \in RunIds :
        \A i \in 1..Len(calls[r]) :
            calls[r][i] = Call("approve", "error") =>
                /\ i = Len(calls[r])
                /\ pc[r] = "failed"

====
